---- MODULE Spec2Model ----
(***************************************************************************)
(* BoardMax: the RAG engine (backend/app/services/rag_engine.py), the      *)
(* /ask request handler (backend/app/api/chat.py) and the batch ingestion  *)
(* script (ingest.py).                                                     *)
(*                                                                         *)
(* The Pinecone index, the embedding model, the PDF loader / text splitter *)
(* and the Groq completion API are external collaborators: every outcome   *)
(* they can produce (a result, an exception with some text) is a           *)
(* nondeterministic input of the action that calls them.                   *)
(***************************************************************************)
EXTENDS Integers, Sequences, FiniteSets, TLC

\* ------------------------------------------------------------------ bounds
MaxRequests == 2        \* requests served by one process
NumThreads == 2         \* concurrent callers of initialize_vector_db
MaxThreadCalls == 2     \* calls each concurrent caller makes
NumFiles == 3           \* entries of the ingestion folder / known documents
MaxCalls == 5           \* calls made on one RAGEngine by a sequential caller

\* ------------------------------------------------------- program constants
MinLength == 10         \* AskRequest.question min_length
MaxLength == 2000       \* AskRequest.question max_length
K == 3                  \* k passed by ask_question, and search's default

None == 0               \* Python's None for the Optional[...] engine fields

Range(s) == {s[i] : i \in DOMAIN s}

\* ------------------------------------------------------------------- state
VARIABLES
    vector_store,   \* RAGEngine.vector_store: None or the id of the store object
    embeddings,     \* RAGEngine.embeddings: None or 1 (an embeddings object)
    constructed,    \* number of PineconeVectorStore objects constructed so far
    index,          \* the content of the Pinecone index: a set of chunks
    \* one /ask request at a time (ask_question has no await: it runs to completion)
    apc,            \* position of the handler
    request,        \* the AskRequest being served
    calls,          \* external calls made for this request, in order
    relevant_docs,  \* result of rag_engine.search
    context,        \* "\n\n".join of the page contents
    prompt,         \* formatted_prompt
    response,       \* what the caller receives
    served,         \* requests received so far
    errlog,         \* <<step, response>> of every collaborator failure so far
    \* concurrent callers of initialize_vector_db
    tpc, tcalls,
    \* a sequential caller of the engine's methods
    ncalls, last,
    chunks,         \* the caller's `chunks` local (result of ingest_pdf)
    \* ingest.main()
    mpc, folder_exists, isPdf, pos, attempted, failed

engineVars == <<vector_store, embeddings, constructed>>
askVars == <<apc, request, calls, relevant_docs, context, prompt, response, served, errlog>>
threadVars == <<tpc, tcalls>>
callerVars == <<ncalls, last>>
mainVars == <<mpc, folder_exists, isPdf, pos, attempted, failed>>
vars == <<vector_store, embeddings, constructed, index, apc, request, calls,
          relevant_docs, context, prompt, response, served, errlog, tpc, tcalls,
          ncalls, last, chunks, mpc, folder_exists, isPdf, pos, attempted, failed>>

\* ------------------------------------------------------------ text, chunks
\* A text is a sequence of tokens; the whitespace tokens are:
Whitespace == {" ", "\n", "\n\n", "\t"}

\* str.strip() == "" : the text is empty or whitespace-only
IsBlank(text) == \A i \in DOMAIN text : text[i] \in Whitespace

\* page_content.replace("\n", " ")
ReplaceNewlines(text) == [i \in DOMAIN text |-> IF text[i] = "\n" THEN " " ELSE text[i]]

Subjects == {"physics", "history"}

Chunk(text, subject, source, page) ==
    [page_content |-> text, subject |-> subject, source |-> source, page |-> page]

\* "\n\n".join([doc.page_content for doc in relevant_docs])
RECURSIVE Join(_)
Join(docs) ==
    IF docs = <<>> THEN <<>>
    ELSE IF Len(docs) = 1 THEN docs[1].page_content
    ELSE docs[1].page_content \o <<"\n\n">> \o Join(Tail(docs))

\* ------------------------------------------------------- the Pinecone index
SubjectFilter(subject) == [on |-> TRUE, subject |-> subject]
NoFilter == [on |-> FALSE, subject |-> ""]

MatchesFilter(c, filter) == (~filter.on) \/ c.subject = filter.subject

Min(a, b) == IF a < b THEN a ELSE b

\* vector_store.similarity_search(query, k=k, filter=filter): some at most k
\* distinct chunks of the index that satisfy the metadata filter, in the
\* store's order of similarity (any order, any subset: a black box).
similarity_search(store, k, filter) ==
    LET M == {c \in store : MatchesFilter(c, filter)}
    IN  UNION {{s \in [1..n -> M] : \A i, j \in 1..n : i # j => s[i] # s[j]}
               : n \in 0..Min(k, Cardinality(M))}

\* What an external index may already hold when the server starts: chunks
\* written by earlier ingestion runs or by any other writer of the index.
SeedIndex ==
    { Chunk(<<" ">>, "physics", 0, 1),
      Chunk(<<"newton">>, "physics", 0, 2),
      Chunk(<<"treaty">>, "history", 0, 1) }

\* ---------------------------------------------------------------- RAGEngine
InitOutcomes == {"ok", "embed_error", "no_key", "connect_error"}

\* `if self.vector_store is not None: return`
AlreadyInitialized_Never == FALSE
AlreadyInitialized == vector_store # None

\* The exception leaves initialize_vector_db (and so its caller)
InitRaises_Swallowed(outcome) == FALSE
InitRaises(outcome) == ~AlreadyInitialized /\ outcome # "ok"

\* RAGEngine.initialize_vector_db, run without interleaving
initialize_vector_db(outcome) ==
    IF AlreadyInitialized
    THEN UNCHANGED engineVars
    ELSE /\ embeddings' = IF outcome = "embed_error" THEN embeddings ELSE 1
         /\ IF outcome = "ok"
            THEN /\ vector_store' = constructed + 1
                 /\ constructed' = constructed + 1
            ELSE UNCHANGED <<vector_store, constructed>>

\* text_splitter.split_documents(loader.load()): the chunk texts of document f
\* (document f has f - 1 chunks; the first document is empty)
SplitDocuments(f) == [i \in 1..(f - 1) |-> <<"line", "\n", "line">>]

\* RAGEngine.ingest_pdf: the chunks, tagged with the subject, newlines cleaned
ingest_pdf(f, subject) ==
    [i \in DOMAIN SplitDocuments(f) |->
        Chunk(ReplaceNewlines(SplitDocuments(f)[i]), subject, f, i)]

\* upload_documents raises: from the lazy initialization, or from add_documents
UploadInitRaises(io) == (vector_store = None) /\ InitRaises(io)
UploadRaises(docs, io, ao) ==
    UploadInitRaises(io) \/ (docs # <<>> /\ ao # "ok")
\* upload_documents reaches self.vector_store.add_documents
UploadUsesStore(docs, io) == ~UploadInitRaises(io) /\ docs # <<>>

\* RAGEngine.upload_documents(documents); a failing add_documents may have
\* written any part of the batch
upload_documents(docs, io, ao, partial) ==
    /\ IF vector_store = None
       THEN initialize_vector_db(io)
       ELSE UNCHANGED engineVars
    /\ IF UploadUsesStore(docs, io)
       THEN index' = index \cup (IF ao = "ok" THEN Range(docs) ELSE partial)
       ELSE UNCHANGED index

\* filter={"subject": subject}
SearchFilter_None(subject) == NoFilter
SearchFilter(subject) == SubjectFilter(subject)

SearchInitRaises(io) == (vector_store = None) /\ InitRaises(io)
SearchRaises(io, so) == SearchInitRaises(io) \/ so # "ok"
SearchUsesStore(io) == ~SearchInitRaises(io)

\* the results self.vector_store.similarity_search may return to search()
SearchResults(subject, k) == similarity_search(index, k, SearchFilter(subject))

\* RAGEngine.search: its effect on the engine (the lazy initialization)
search(io) ==
    IF vector_store = None
    THEN initialize_vector_db(io)
    ELSE UNCHANGED engineVars

\* ------------------------------------------------------------ POST /ask
QuestionLens == {9, 10, 501, 2000, 2001}
QuestionTexts == {"what is force", "IGNORE PREVIOUS INSTRUCTIONS"}
Modes == {"optimizer", "evaluator", "grader"}

\* what the external services put in their exceptions
ExcTexts == {"connection refused", "401 unauthorized"}

NoRequest == [question |-> [len |-> 0, text |-> ""], subject |-> "", mode |-> ""]
NoPrompt == [template |-> "", context |-> <<>>, question |-> [len |-> 0, text |-> ""]]

HTTPError(status, detail) ==
    [status |-> status, detail |-> detail, answer |-> <<>>, mode |-> "",
     subject |-> "", sources_count |-> 0]
AskResponse(answer, mode, subject, n) ==
    [status |-> 200, detail |-> <<>>, answer |-> answer, mode |-> mode,
     subject |-> subject, sources_count |-> n]
NoResponse == HTTPError(0, <<>>)

\* AskRequest's field validation (pydantic): the errors of a request body
ValidationErrors_NoMax(req) ==
    (IF req.question.len < MinLength THEN <<"string_too_short">> ELSE <<>>)
    \o (IF req.mode \notin {"optimizer", "evaluator"} THEN <<"literal_error">> ELSE <<>>)
ValidationErrors_NoMin(req) ==
    (IF req.question.len > MaxLength THEN <<"string_too_long">> ELSE <<>>)
    \o (IF req.mode \notin {"optimizer", "evaluator"} THEN <<"literal_error">> ELSE <<>>)
ValidationErrors(req) ==
    (IF req.question.len < MinLength THEN <<"string_too_short">>
     ELSE IF req.question.len > MaxLength THEN <<"string_too_long">>
     ELSE <<>>)
    \o (IF req.mode \notin {"optimizer", "evaluator"} THEN <<"literal_error">> ELSE <<>>)

Respond(r) == apc' = "responded" /\ response' = r

\* str(e) of the exception initialize_vector_db raises
InitExcText(io, text) ==
    IF io = "no_key" THEN "PINECONE_API_KEY not found in environment variables"
    ELSE text

InitErrorDetail(text) ==
    <<"Database connection failed. Please check Pinecone configuration. Error: ", text>>
SearchErrorDetail(text) == <<"Search operation failed: ", text>>
GroqErrorDetail(text) ==
    <<"AI processing failed. Please check Groq API configuration. Error: ", text>>
NotFoundDetail(subject) ==
    <<"No marking scheme data found for subject '", subject,
      "'. Please ensure PDFs are uploaded.">>

\* `if not relevant_docs:`
IsEmptyResult_Never(docs) == FALSE
IsEmptyResult_OrBlank(docs) == docs = <<>> \/ IsBlank(Join(docs))
IsEmptyResult(docs) == docs = <<>>

\* the request body arrives (a question of n characters with text t, a
\* subject, a mode); FastAPI validates it before the handler's body runs
Receive(n, t, s, m) ==
    /\ apc \in {"idle", "responded"}
    /\ served < MaxRequests
    /\ served' = served + 1
    /\ LET req == [question |-> [len |-> n, text |-> t], subject |-> s, mode |-> m]
       IN  /\ request' = req
           /\ IF ValidationErrors(req) = <<>>
              THEN apc' = "init" /\ response' = NoResponse
              ELSE Respond(HTTPError(422, ValidationErrors(req)))
    /\ calls' = <<>>
    /\ relevant_docs' = <<>>
    /\ context' = <<>>
    /\ prompt' = NoPrompt
    /\ UNCHANGED <<engineVars, index, errlog, threadVars, callerVars, chunks, mainVars>>

\* Step 1: rag_engine.initialize_vector_db()
AskInit(io, text) ==
    /\ apc = "init"
    /\ initialize_vector_db(io)
    /\ calls' = Append(calls, <<"init", IF InitRaises(io) THEN "raised" ELSE "ok">>)
    /\ IF InitRaises(io)
       THEN LET r == HTTPError(500, InitErrorDetail(InitExcText(io, text)))
            IN  Respond(r) /\ errlog' = errlog \cup {<<"init", r>>}
       ELSE apc' = "search" /\ UNCHANGED <<response, errlog>>
    /\ UNCHANGED <<index, request, relevant_docs, context, prompt, served,
                   threadVars, callerVars, chunks, mainVars>>

\* `except Exception as e:` around the search
OnSearchError_Swallow(text) ==
    /\ apc' = "compose"
    /\ UNCHANGED <<response, errlog, relevant_docs, context>>
OnSearchError(text) ==
    LET r == HTTPError(500, SearchErrorDetail(text))
    IN  /\ Respond(r)
        /\ errlog' = errlog \cup {<<"search", r>>}
        /\ UNCHANGED <<relevant_docs, context>>

\* Step 2: rag_engine.search(query, subject, k=3), the empty check, the join
AskSearch(io, so, text) ==
    /\ apc = "search"
    /\ search(io)
    /\ calls' = Append(calls, <<"search", IF SearchRaises(io, so) THEN "raised" ELSE "ok">>)
    /\ IF SearchRaises(io, so)
       THEN OnSearchError(IF SearchInitRaises(io) THEN InitExcText(io, text) ELSE text)
       ELSE \E docs \in SearchResults(request.subject, K) :
              /\ relevant_docs' = docs
              /\ UNCHANGED errlog
              /\ IF IsEmptyResult(docs)
                 THEN /\ Respond(HTTPError(404, NotFoundDetail(request.subject)))
                      /\ UNCHANGED context
                 ELSE /\ context' = Join(docs)
                      /\ apc' = "compose"
                      /\ UNCHANGED response
    /\ UNCHANGED <<index, request, prompt, served, threadVars, callerVars, chunks, mainVars>>

\* the system prompt chosen by request.mode
SystemPrompt(mode) == IF mode = "optimizer" THEN "optimizer" ELSE "evaluator"

\* Step 3: system_prompt.format(context=context, question=request.question)
AskCompose ==
    /\ apc = "compose"
    /\ prompt' = [template |-> SystemPrompt(request.mode), context |-> context,
                  question |-> request.question]
    /\ apc' = "groq"
    /\ UNCHANGED <<engineVars, index, request, calls, relevant_docs, context, response,
                   served, errlog, threadVars, callerVars, chunks, mainVars>>

GroqOutcomes == {"ok", "no_key", "api_error", "no_content"}

\* str(e) of the exception caught around the Groq call
GroqExcText(go, text) ==
    IF go = "no_key" THEN "GROQ_API_KEY not found in environment variables"
    ELSE IF go = "no_content" THEN "object of type 'NoneType' has no len()"
    ELSE text

\* Steps 4 and 5: client.chat.completions.create(...) and the response.
\* (Every HTTPException raised by a step passes the outer `except
\* HTTPException: raise` unchanged.)
AskGroq(go, text) ==
    /\ apc = "groq"
    /\ calls' = IF go = "no_key" THEN calls
                ELSE Append(calls, <<"groq", IF go = "api_error" THEN "raised" ELSE "ok">>)
    /\ IF go = "ok"
       THEN /\ Respond(AskResponse(<<"ai_response">>, request.mode, request.subject,
                                   Len(relevant_docs)))
            /\ UNCHANGED errlog
       ELSE LET r == HTTPError(500, GroqErrorDetail(GroqExcText(go, text)))
            IN  Respond(r) /\ errlog' = errlog \cup {<<"groq", r>>}
    /\ UNCHANGED <<engineVars, index, request, relevant_docs, context, prompt, served,
                   threadVars, callerVars, chunks, mainVars>>

\* ------------------------------------------------------------ initial state
\* RAGEngine.__init__ and the module-level state before any call
InitCommon ==
    /\ vector_store = None /\ embeddings = None /\ constructed = 0
    /\ apc = "idle" /\ request = NoRequest /\ calls = <<>> /\ relevant_docs = <<>>
    /\ context = <<>> /\ prompt = NoPrompt /\ response = NoResponse
    /\ served = 0 /\ errlog = {}
    /\ tpc = [t \in 1..NumThreads |-> "idle"] /\ tcalls = [t \in 1..NumThreads |-> 0]
    /\ ncalls = 0
    /\ last = [op |-> "", raised |-> FALSE, init_attempted |-> FALSE,
               used_store |-> FALSE, filter |-> NoFilter, subject |-> "", results |-> <<>>]
    /\ chunks = <<>>
    /\ pos = 0 /\ attempted = {} /\ failed = {}

\* the API server: the index holds what earlier ingestion left there
Init ==
    /\ InitCommon
    /\ index = SeedIndex
    /\ mpc = "idle" /\ folder_exists = TRUE /\ isPdf = [f \in 1..NumFiles |-> TRUE]

Next ==
    \/ \E n \in QuestionLens, t \in QuestionTexts, s \in Subjects, m \in Modes :
          Receive(n, t, s, m)
    \/ \E io \in InitOutcomes, text \in ExcTexts : AskInit(io, text)
    \/ \E io \in InitOutcomes, so \in {"ok", "error"}, text \in ExcTexts : AskSearch(io, so, text)
    \/ AskCompose
    \/ \E go \in GroqOutcomes, text \in ExcTexts : AskGroq(go, text)

Spec == Init /\ [][Next]_vars

\* --------------------------------------- a sequential caller of the engine
LastCall(op, raised, attempted_init, used, filter, subject, results) ==
    [op |-> op, raised |-> raised, init_attempted |-> attempted_init,
     used_store |-> used, filter |-> filter, subject |-> subject, results |-> results]

\* engine.initialize_vector_db()
E_Initialize(io) ==
    /\ ncalls < MaxCalls
    /\ ncalls' = ncalls + 1
    /\ initialize_vector_db(io)
    /\ last' = LastCall("initialize_vector_db", InitRaises(io), ~AlreadyInitialized,
                        FALSE, NoFilter, "", <<>>)
    /\ UNCHANGED <<index, chunks, askVars, threadVars, mainVars>>

\* chunks = engine.ingest_pdf(file_path, subject); a PDF that cannot be read raises
E_IngestPdf(f, subject, ok) ==
    /\ ncalls < MaxCalls
    /\ ncalls' = ncalls + 1
    /\ chunks' = IF ok THEN ingest_pdf(f, subject) ELSE chunks
    /\ last' = LastCall("ingest_pdf", ~ok, FALSE, FALSE, NoFilter, subject, <<>>)
    /\ UNCHANGED <<engineVars, index, askVars, threadVars, mainVars>>

\* engine.upload_documents(chunks)
E_UploadDocuments(io, ao, partial) ==
    /\ ncalls < MaxCalls
    /\ ncalls' = ncalls + 1
    /\ upload_documents(chunks, io, ao, partial)
    /\ last' = LastCall("upload_documents", UploadRaises(chunks, io, ao),
                        vector_store = None, UploadUsesStore(chunks, io),
                        NoFilter, "", <<>>)
    /\ UNCHANGED <<chunks, askVars, threadVars, mainVars>>

\* engine.search(query, subject, k)
E_Search(subject, k, io, so) ==
    /\ ncalls < MaxCalls
    /\ ncalls' = ncalls + 1
    /\ search(io)
    /\ \E docs \in (IF SearchRaises(io, so) THEN {<<>>} ELSE SearchResults(subject, k)) :
          last' = LastCall("search", SearchRaises(io, so), vector_store = None,
                           SearchUsesStore(io), SearchFilter(subject), subject, docs)
    /\ UNCHANGED <<index, chunks, askVars, threadVars, mainVars>>

\* a fresh engine on an empty index
InitEngine ==
    /\ InitCommon
    /\ index = {}
    /\ mpc = "idle" /\ folder_exists = TRUE /\ isPdf = [f \in 1..NumFiles |-> TRUE]

NextEngine ==
    \/ \E io \in InitOutcomes : E_Initialize(io)
    \/ \E f \in 1..NumFiles, s \in Subjects, ok \in BOOLEAN : E_IngestPdf(f, s, ok)
    \/ \E io \in InitOutcomes, ao \in {"ok", "error"}, partial \in SUBSET Range(chunks) :
          E_UploadDocuments(io, ao, partial)
    \/ \E s \in Subjects, k \in {1, K}, io \in InitOutcomes, so \in {"ok", "error"} :
          E_Search(s, k, io, so)

SpecEngine == InitEngine /\ [][NextEngine]_vars

\* ------------------------- concurrent callers of initialize_vector_db
\* (threads sharing one RAGEngine; there is no lock in initialize_vector_db)
Threads == 1..NumThreads

\* a caller enters initialize_vector_db
T_Call(t) ==
    /\ tpc[t] \in {"idle", "returned", "raised"}
    /\ tcalls[t] < MaxThreadCalls
    /\ tcalls' = [tcalls EXCEPT ![t] = @ + 1]
    /\ tpc' = [tpc EXCEPT ![t] = "check"]
    /\ UNCHANGED <<engineVars, index, askVars, callerVars, chunks, mainVars>>

\* `if self.vector_store is not None: return`
T_Check(t) ==
    /\ tpc[t] = "check"
    /\ tpc' = [tpc EXCEPT ![t] = IF AlreadyInitialized THEN "returned" ELSE "embed"]
    /\ UNCHANGED <<engineVars, tcalls, index, askVars, callerVars, chunks, mainVars>>

\* self.embeddings = HuggingFaceEmbeddings(...)
T_Embeddings(t, ok) ==
    /\ tpc[t] = "embed"
    /\ embeddings' = IF ok THEN 1 ELSE embeddings
    /\ tpc' = [tpc EXCEPT ![t] = IF ok THEN "key" ELSE "raised"]
    /\ UNCHANGED <<vector_store, constructed, tcalls, index, askVars, callerVars,
                   chunks, mainVars>>

\* api_key = os.getenv('PINECONE_API_KEY'); raise ValueError when missing
T_ApiKey(t, ok) ==
    /\ tpc[t] = "key"
    /\ tpc' = [tpc EXCEPT ![t] = IF ok THEN "connect" ELSE "raised"]
    /\ UNCHANGED <<engineVars, tcalls, index, askVars, callerVars, chunks, mainVars>>

\* pc = Pinecone(...); self.vector_store = PineconeVectorStore(...)
T_Connect(t, ok) ==
    /\ tpc[t] = "connect"
    /\ IF ok
       THEN /\ constructed' = constructed + 1
            /\ vector_store' = constructed + 1
       ELSE UNCHANGED <<vector_store, constructed>>
    /\ tpc' = [tpc EXCEPT ![t] = IF ok THEN "returned" ELSE "raised"]
    /\ UNCHANGED <<embeddings, tcalls, index, askVars, callerVars, chunks, mainVars>>

NextThreads ==
    \/ \E t \in Threads : T_Call(t)
    \/ \E t \in Threads : T_Check(t)
    \/ \E t \in Threads, ok \in BOOLEAN : T_Embeddings(t, ok)
    \/ \E t \in Threads, ok \in BOOLEAN : T_ApiKey(t, ok)
    \/ \E t \in Threads, ok \in BOOLEAN : T_Connect(t, ok)

SpecThreads == InitEngine /\ [][NextThreads]_vars

\* ------------------------------------------------------------ ingest.main()
Files == 1..NumFiles

\* subject = "social-science"  (hardcoded)
IngestSubject == "social-science"

\* engine = RAGEngine(); engine.initialize_vector_db("boardmax")
M_Connect(io) ==
    /\ mpc = "connect"
    /\ initialize_vector_db(io)
    /\ mpc' = IF InitRaises(io) THEN "crashed" ELSE "folder"
    /\ UNCHANGED <<index, chunks, folder_exists, isPdf, pos, attempted, failed,
                   askVars, threadVars, callerVars>>

\* `if not os.path.exists(pdf_folder): ... return`
M_FolderCheck ==
    /\ mpc = "folder"
    /\ IF folder_exists
       THEN mpc' = "loop" /\ pos' = 1
       ELSE mpc' = "done" /\ UNCHANGED pos
    /\ UNCHANGED <<engineVars, index, chunks, folder_exists, isPdf, attempted, failed,
                   askVars, threadVars, callerVars>>

\* `for filename in os.listdir(pdf_folder): if filename.endswith(".pdf"):`
M_Loop ==
    /\ mpc = "loop"
    /\ IF pos > NumFiles
       THEN mpc' = "done" /\ UNCHANGED pos
       ELSE IF isPdf[pos]
            THEN mpc' = "ingest" /\ UNCHANGED pos
            ELSE mpc' = "loop" /\ pos' = pos + 1
    /\ UNCHANGED <<engineVars, index, chunks, folder_exists, isPdf, attempted, failed,
                   askVars, threadVars, callerVars>>

\* `except Exception as e: print(...)`: the loop goes on with the next file
OnDocumentError_Abort(stage) ==
    /\ failed' = failed \cup {<<pos, stage>>}
    /\ mpc' = "crashed"
    /\ UNCHANGED pos
OnDocumentError(stage) ==
    /\ failed' = failed \cup {<<pos, stage>>}
    /\ mpc' = "loop"
    /\ pos' = pos + 1

\* chunks = engine.ingest_pdf(file_path, subject)
M_Ingest(ok) ==
    /\ mpc = "ingest"
    /\ attempted' = attempted \cup {pos}
    /\ IF ok
       THEN /\ chunks' = ingest_pdf(pos, IngestSubject)
            /\ mpc' = "upload"
            /\ UNCHANGED <<pos, failed>>
       ELSE /\ OnDocumentError("ingest_pdf")
            /\ UNCHANGED chunks
    /\ UNCHANGED <<engineVars, index, folder_exists, isPdf, askVars, threadVars, callerVars>>

\* engine.upload_documents(chunks)
M_Upload(io, ao, partial) ==
    /\ mpc = "upload"
    /\ upload_documents(chunks, io, ao, partial)
    /\ IF UploadRaises(chunks, io, ao)
       THEN OnDocumentError("upload_documents")
       ELSE mpc' = "loop" /\ pos' = pos + 1 /\ UNCHANGED failed
    /\ UNCHANGED <<chunks, folder_exists, isPdf, attempted, askVars, threadVars, callerVars>>

\* the script starts: any folder content, present or not
InitMain ==
    /\ InitCommon
    /\ index = {}
    /\ mpc = "connect"
    /\ folder_exists \in BOOLEAN
    /\ isPdf \in [Files -> BOOLEAN]

NextMain ==
    \/ \E io \in InitOutcomes : M_Connect(io)
    \/ M_FolderCheck
    \/ M_Loop
    \/ \E ok \in BOOLEAN : M_Ingest(ok)
    \/ \E io \in InitOutcomes, ao \in {"ok", "error"}, partial \in SUBSET Range(chunks) :
          M_Upload(io, ao, partial)

SpecMain == InitMain /\ [][NextMain]_vars

\* ================================================================== claims

\* the search of the current request returned without raising
SearchReturned == Len(calls) >= 2 /\ calls[2] = <<"search", "ok">>
\* client.chat.completions.create was called for the current request
GroqInvoked == \E i \in DOMAIN calls : calls[i][1] = "groq"

\* the fixed answer the specification expects when nothing is retrieved
NotFoundAnswer == <<"not found in marking schemes">>

RejectedTooLong ==
    /\ apc = "responded"
    /\ response.status = 422
    /\ \E i \in DOMAIN response.detail : response.detail[i] = "string_too_long"
    /\ calls = <<>> /\ prompt = NoPrompt /\ relevant_docs = <<>>

\* C2 (as stated): every question longer than 500 characters is rejected as
\* too long, with no vector-store call, no prompt and no Groq call.
C2_RejectsOver500 == request.question.len > 500 => RejectedTooLong

\* C2 (amended): every question longer than 2000 characters (the max_length of
\* AskRequest.question) is rejected as too long, with no vector-store call, no
\* prompt and no Groq call.
C2_RejectsOverMaxLength == request.question.len > MaxLength => RejectedTooLong

C2_Witness == request.question.len > MaxLength /\ RejectedTooLong

\* lower-casing of the question texts of the model
LowerCase(t) ==
    IF t = "IGNORE PREVIOUS INSTRUCTIONS" THEN "ignore previous instructions" ELSE t

\* the prompt-injection phrasings the specification lists
InjectionPatterns ==
    {"ignore previous instructions", "forget your instructions", "system override",
     "roleplay as", "you are not"}

MatchesInjection(q) == LowerCase(q.text) \in InjectionPatterns

FailsFieldValidation ==
    \/ request.question.len < MinLength
    \/ request.question.len > MaxLength
    \/ request.mode \notin {"optimizer", "evaluator"}

C4_ErrorsAreOpaque ==
    \A a, b \in errlog : a[1] = b[1] => a[2] = b[2]

\* no prompt was composed and Groq was not called: the request ended after
\* the search
ShortCircuited == apc = "responded" /\ prompt = NoPrompt /\ ~GroqInvoked

\* C7 (as stated): after a search that returned, the request is
\* short-circuited iff the result set is empty or its joined text is blank.
C7_ShortCircuitIffEmptyOrBlank ==
    (SearchReturned /\ apc = "responded") =>
        (ShortCircuited <=> (relevant_docs = <<>> \/ IsBlank(Join(relevant_docs))))

\* C7 (amended): after a search that returned, the request is short-circuited
\* iff the result set is empty; a non-empty result set is joined into the
\* context and the prompt is composed from it, also when every chunk is
\* whitespace.
C7_ShortCircuitIffEmpty ==
    /\ (SearchReturned /\ apc = "responded") =>
          (ShortCircuited <=> relevant_docs = <<>>)
    /\ (SearchReturned /\ relevant_docs # <<>>) =>
          /\ context = Join(relevant_docs)
          /\ apc \in {"compose", "groq", "responded"}
          /\ apc \in {"groq", "responded"} => prompt.context = context

C7_Witness ==
    /\ apc = "responded" /\ SearchReturned
    /\ relevant_docs # <<>> /\ IsBlank(Join(relevant_docs))
    /\ GroqInvoked /\ response.status = 200

Pipeline == <<"init", "search", "groq">>

\* C9: the external calls of a request are a prefix of init, search, Groq, each
\* made once; a call that raised is the last one and ends the request with a
\* 500; Groq is called only after a search that returned chunks; a 200 comes
\* only after all three returned; a request has a response exactly when it
\* has ended.
C9_LinearNoRetry ==
    /\ Len(calls) <= Len(Pipeline)
    /\ \A i \in DOMAIN calls : calls[i][1] = Pipeline[i]
    /\ \A i \in DOMAIN calls :
          calls[i][2] = "raised" =>
              i = Len(calls) /\ apc = "responded" /\ response.status = 500
    /\ GroqInvoked => SearchReturned /\ relevant_docs # <<>> /\ prompt # NoPrompt
    /\ response.status = 200 =>
          calls = <<<<"init", "ok">>, <<"search", "ok">>, <<"groq", "ok">>>>
    /\ (apc = "responded") <=> (response # NoResponse)
    /\ apc = "responded" => response.status \in {200, 404, 422, 500}

C9_Witness ==
    /\ apc = "responded" /\ response.status = 500
    /\ calls = <<<<"init", "ok">>, <<"search", "raised">>>>
    /\ prompt = NoPrompt

\* C5: concurrent first-time initializations construct at most one
\* vector-store connection.
C5_AtMostOneConnection == constructed <= 1

\* C6: a search that returned was made with the filter on the requested
\* subject, and every chunk it returned carries that subject.
C6_SubjectIsolation ==
    (last.op = "search" /\ ~last.raised) =>
        /\ last.used_store
        /\ last.filter = [on |-> TRUE, subject |-> last.subject]
        /\ \A i \in DOMAIN last.results : last.results[i].subject = last.subject

C6_Witness ==
    /\ last.op = "search" /\ ~last.raised
    /\ last.results # <<>>
    /\ \E c \in index : c.subject # last.subject

\* the calls that need the vector store
NeedsStore(op) == op \in {"initialize_vector_db", "upload_documents", "search"}

C10_Step ==
    \* assigned at most once, never reset, nothing constructed once set
    /\ constructed' <= 1
    /\ vector_store # None =>
          (vector_store' = vector_store /\ constructed' = constructed)
    /\ ncalls' # ncalls =>
          \* a call on an unset store attempts the initialization, a call on
          \* a set store does not
          /\ NeedsStore(last'.op) => (last'.init_attempted <=> vector_store = None)
          \* a failed initialization leaves the store unset
          /\ (last'.init_attempted /\ last'.raised /\ ~last'.used_store) =>
                vector_store' = None
          \* the store is only used once it is set
          /\ last'.used_store => vector_store' # None

\* C10: on one engine used by a sequential caller, vector_store is assigned at
\* most once and never reset; a failed initialization leaves it unset and the
\* next call that needs it tries again; a call after a successful
\* initialization constructs nothing; search and upload_documents use the
\* store only when it is set.
C10_LazyInitOnce == [][C10_Step]_vars

C10_Witness ==
    /\ last.op = "search" /\ last.init_attempted /\ ~last.raised
    /\ vector_store # None /\ ncalls >= 2

PdfFiles == {f \in Files : isPdf[f]}
FailedFiles == {p[1] : p \in failed}

\* C8: main() stops abnormally only when the initial connection fails, before
\* any file is read; until it ends it always has a next step, whatever failed
\* before; once the folder is found it ends having attempted every .pdf
\* entry, with all chunks of every document that did not fail in the index
\* and no chunk of a document whose parsing failed or of a non-PDF entry.
C8_PartialFailureTolerant ==
    /\ mpc = "crashed" => (attempted = {} /\ vector_store = None /\ index = {})
    /\ mpc \in {"ingest", "upload"} => pos \in PdfFiles
    /\ (mpc = "done" /\ folder_exists) =>
          /\ attempted = PdfFiles
          /\ FailedFiles \subseteq PdfFiles
          /\ \A f \in PdfFiles \ FailedFiles :
                Range(ingest_pdf(f, IngestSubject)) \subseteq index
          /\ \A f \in Files :
                (<<f, "ingest_pdf">> \in failed \/ ~isPdf[f]) =>
                    \A c \in index : c.source # f
    /\ (mpc = "done" /\ ~folder_exists) => (attempted = {} /\ index = {})
    /\ mpc \notin {"done", "crashed"} => ENABLED NextMain

C8_Witness ==
    /\ mpc = "done" /\ folder_exists
    /\ \E f, g \in PdfFiles :
          /\ f < g
          /\ <<f, "ingest_pdf">> \in failed
          /\ g \notin FailedFiles
          /\ ingest_pdf(g, IngestSubject) # <<>>
          /\ Range(ingest_pdf(g, IngestSubject)) \subseteq index

====
